---- MODULE Spec2Model ----
(***************************************************************************)
(* Model of the SHT31 protocol decoder, decoders/sht31/pd.py.              *)
(*                                                                         *)
(* The decoder object is modelled by the record Self: its instance         *)
(* attributes (state, databytes, ss, es, ss_block, es_block, out_ann) and  *)
(* two observation fields: out, the annotations handed to self.put()       *)
(* during the current call, and exc, the Python exception the call ended   *)
(* with ("none" when it returned normally).  call is the last call the     *)
(* host made, with its arguments; samplenum is the host's position in the  *)
(* capture.                                                                *)
(*                                                                         *)
(* Four specifications drive the decoder.  Spec: one decoder fed any       *)
(* packet stream and reset at any time.  StreamSpec: the same without      *)
(* reset, with the kinds of all annotations kept in scn.emitted.           *)
(* PairSpec: the decoder and a second one, twin, fed the same stream       *)
(* except for the addresses of its ADDRESS READ packets.                   *)
(* ScenarioSpec: the decoder fed one of the three scenario streams of the  *)
(* spec; scn holds the scenario's name, the packets still to deliver, the  *)
(* annotations put so far and the number of packets delivered after it.    *)
(***************************************************************************)
EXTENDS Integers, Sequences, FiniteSets, TLC

VARIABLES state, databytes, ss, es, ss_block, es_block, out_ann, out, exc,
          call, samplenum, twin, scn

vars == <<state, databytes, ss, es, ss_block, es_block, out_ann, out, exc,
          call, samplenum, twin, scn>>

(***************************************************************************)
(* Bounds of the model.                                                    *)
(***************************************************************************)
\* Last sample number of the capture: no packet ends after it.
MaxSample == 9
\* Longest I2C packet, in samples.
MaxDur == 2

(***************************************************************************)
(* Inputs.                                                                 *)
(***************************************************************************)
\* The packet kinds of the I2C decoder the spec names.
Cmds == {"START", "ADDRESS READ", "ADDRESS WRITE", "DATA READ", "DATA WRITE",
         "STOP"}

\* Data bytes: 0x00, 0xFF and 0xAC.  crc([0xFF,0x00]) = 0x00 and
\* crc([0xFF,0xFF]) = 0xAC, so both checksum outcomes occur.
Bytes == {0, 255, 172}

\* 7-bit slave addresses: the two SHT31 addresses, and two others.
Addrs == {68, 69, 67, 80}

\* The payload of a packet.  decode() reads it for the two READ kinds only;
\* one value stands for the payload of every other kind.
Payload(cmd) ==
    IF cmd = "DATA READ" THEN Bytes
    ELSE IF cmd = "ADDRESS READ" THEN Addrs
    ELSE IF cmd = "DATA WRITE" THEN {255}
    ELSE IF cmd = "ADDRESS WRITE" THEN {68}
    ELSE {0}

\* An attribute that no statement has assigned yet.
Unset == -1

(***************************************************************************)
(* The CRC of the crc package, configured as in reset().                   *)
(***************************************************************************)
width == 8
poly == 49
init_value == 255
final_xor_value == 0

RECURSIVE Xor(_, _)
Xor(a, b) ==
    IF a = 0 THEN b
    ELSE IF b = 0 THEN a
    ELSE ((a + b) % 2) + 2 * Xor(a \div 2, b \div 2)

TopBit == 2 ^ (width - 1)
Mask == 2 ^ width

\* One step of the shift register: the register shifted left by one bit, and
\* the polynomial xored in when the bit shifted out is 1.
ShiftBit(c) ==
    IF c >= TopBit THEN Xor((2 * c) % Mask, poly) ELSE (2 * c) % Mask

RECURSIVE ShiftBits(_, _)
ShiftBits(c, n) == IF n = 0 THEN c ELSE ShiftBits(ShiftBit(c), n - 1)

\* use_table = True: the 256-entry lookup table of the calculator.
CrcTable == [i \in 0..(Mask - 1) |-> ShiftBits(i, width)]

RECURSIVE TableCrc(_, _)
TableCrc(crc, data) ==
    IF data = <<>> THEN crc
    ELSE TableCrc(CrcTable[Xor(crc, Head(data))], Tail(data))

calculate_checksum(data) == Xor(TableCrc(init_value, data), final_xor_value)

verify_checksum(data, expected_crc) == calculate_checksum(data) = expected_crc

(***************************************************************************)
(* Formatting.  '%.1f' % (num / den), for den > 0, as the number of        *)
(* tenths printed: the quotient rounded to the nearest tenth.  (No value   *)
(* of the two conversions lies half way between two tenths.)               *)
(***************************************************************************)
Tenths(num, den) == (20 * num + den) \div (2 * den)

(***************************************************************************)
(* The decoder.                                                            *)
(***************************************************************************)
Self == [state |-> state, databytes |-> databytes, ss |-> ss, es |-> es,
         ss_block |-> ss_block, es_block |-> es_block, out_ann |-> out_ann,
         out |-> out, exc |-> exc]

\* databytes[i] of Python (0-based).
Item(self, i) == self.databytes[i + 1]

\* databytes[i:j] of Python.
Slice(self, i, j) == SubSeq(self.databytes, i + 1, j)

\* self.put(s, e, self.out_ann, data): the annotation goes to the sink.
\* Reading an attribute that was never assigned raises AttributeError.
put(self, s, e, data) ==
    IF s = Unset \/ e = Unset \/ self.out_ann = Unset
    THEN [self EXCEPT !.exc = "AttributeError"]
    ELSE [self EXCEPT !.out = Append(@, [ss |-> s, es |-> e,
                                         cls |-> data[1], text |-> data[2]])]

\* Mutant: the end sample is mistyped as the start sample.
putx_zero_length(self, data) == put(self, self.ss, self.ss, data)

putx(self, data) == put(self, self.ss, self.es, data)

putb(self, data) == put(self, self.ss_block, self.es_block, data)

\* Mutant: the upper address 0x45 is left out of the range.
warn_upon_invalid_slave_short_range(self, addr) ==
    IF addr \notin 68..68
    THEN putx(self, <<4, <<"Warning: I2C slave address not an SHT31 sensor", addr>>>>)
    ELSE self

warn_upon_invalid_slave(self, addr) ==
    IF addr \notin 68..69
    THEN putx(self, <<4, <<"Warning: I2C slave address not an SHT31 sensor", addr>>>>)
    ELSE self

\* Mutant: the two branches are exchanged.
warn_upon_crc_error_inverted(self, data, expected_crc) ==
    LET crc == calculate_checksum(data) IN
    IF ~verify_checksum(data, expected_crc)
    THEN putx(self, <<3, <<"CRC", crc>>>>)
    ELSE putx(self, <<4, <<"Warning: CRC", crc>>>>)

\* Mutant: a checksum mismatch ends the transaction and drops the reading.
warn_upon_crc_error_fatal(self, data, expected_crc) ==
    LET crc == calculate_checksum(data) IN
    IF verify_checksum(data, expected_crc)
    THEN putx(self, <<3, <<"CRC", crc>>>>)
    ELSE [putx(self, <<4, <<"Warning: CRC", crc>>>>)
             EXCEPT !.state = "IDLE", !.databytes = <<>>]

warn_upon_crc_error(self, data, expected_crc) ==
    LET crc == calculate_checksum(data) IN
    IF verify_checksum(data, expected_crc)
    THEN putx(self, <<3, <<"CRC", crc>>>>)
    ELSE putx(self, <<4, <<"Warning: CRC", crc>>>>)

\* The two conversions, as exact fractions num / den.
\* Mutant: the divisor is 2**16 instead of 2**16 - 1.
celsius_divided_by_65536(raw) ==
    [num |-> -45 * 2 ^ 16 + 175 * raw, den |-> 2 ^ 16]

\* -45 + 175 * float(raw) / (2**16 - 1)
celsius(raw) ==
    [num |-> -45 * (2 ^ 16 - 1) + 175 * raw, den |-> 2 ^ 16 - 1]

\* 100 * float(raw) / (2**16 - 1)
relative_humidity(raw) == [num |-> 100 * raw, den |-> 2 ^ 16 - 1]

\* '%.1f' % q, in tenths.
Format1(q) == Tenths(q.num, q.den)

output_temperature(self) ==
    IF Len(self.databytes) < 2 THEN [self EXCEPT !.exc = "IndexError"]
    ELSE LET raw == Item(self, 0) * 256 + Item(self, 1)
         IN  putb(self, <<0, <<"Temperature", Format1(celsius(raw))>>>>)

output_relative_humidity(self) ==
    IF Len(self.databytes) < 4 THEN [self EXCEPT !.exc = "IndexError"]
    ELSE LET raw == Item(self, 2) * 256 + Item(self, 3)
         IN  putb(self, <<1, <<"Relative Humidity",
                               Format1(relative_humidity(raw))>>>>)

\* Mutant: the first byte of a value does not open the block span.
handle_periodic_data_no_block_start(self, b) ==
    LET d == [self EXCEPT !.databytes = Append(@, b)]
        n == Len(d.databytes)
    IN  IF n = 1 \/ n = 4 THEN d
        ELSE IF n = 2 THEN
            output_temperature([d EXCEPT !.es_block = d.es])
        ELSE IF n = 3 THEN
            warn_upon_crc_error([d EXCEPT !.ss_block = d.ss, !.es_block = d.es],
                                Slice(d, 0, 2), Item(d, 2))
        ELSE IF n = 5 THEN
            output_relative_humidity([d EXCEPT !.es_block = d.es])
        ELSE IF n = 6 THEN
            LET w == warn_upon_crc_error(
                         [d EXCEPT !.ss_block = d.ss, !.es_block = d.es],
                         Slice(d, 3, 5), Item(d, 5))
            IN  IF w.exc # "none" THEN w ELSE [w EXCEPT !.databytes = <<>>]
        ELSE d

\* Mutant: the first humidity byte does not open a new block span.
handle_periodic_data_one_block_start(self, b) ==
    LET d == [self EXCEPT !.databytes = Append(@, b)]
        n == Len(d.databytes)
    IN  IF n = 1 THEN [d EXCEPT !.ss_block = d.ss]
        ELSE IF n = 2 THEN
            output_temperature([d EXCEPT !.es_block = d.es])
        ELSE IF n = 3 THEN
            warn_upon_crc_error([d EXCEPT !.ss_block = d.ss, !.es_block = d.es],
                                Slice(d, 0, 2), Item(d, 2))
        ELSE IF n = 5 THEN
            output_relative_humidity([d EXCEPT !.es_block = d.es])
        ELSE IF n = 6 THEN
            LET w == warn_upon_crc_error(
                         [d EXCEPT !.ss_block = d.ss, !.es_block = d.es],
                         Slice(d, 3, 5), Item(d, 5))
            IN  IF w.exc # "none" THEN w ELSE [w EXCEPT !.databytes = <<>>]
        ELSE d

\* Mutant: the buffer is not cleared after the sixth byte.
handle_periodic_data_no_clear(self, b) ==
    LET d == [self EXCEPT !.databytes = Append(@, b)]
        n == Len(d.databytes)
    IN  IF n = 1 \/ n = 4 THEN [d EXCEPT !.ss_block = d.ss]
        ELSE IF n = 2 THEN
            output_temperature([d EXCEPT !.es_block = d.es])
        ELSE IF n = 3 THEN
            warn_upon_crc_error([d EXCEPT !.ss_block = d.ss, !.es_block = d.es],
                                Slice(d, 0, 2), Item(d, 2))
        ELSE IF n = 5 THEN
            output_relative_humidity([d EXCEPT !.es_block = d.es])
        ELSE IF n = 6 THEN
            warn_upon_crc_error([d EXCEPT !.ss_block = d.ss, !.es_block = d.es],
                                Slice(d, 3, 5), Item(d, 5))
        ELSE d

handle_periodic_data(self, b) ==
    LET d == [self EXCEPT !.databytes = Append(@, b)]
        n == Len(d.databytes)
    IN  IF n = 1 \/ n = 4 THEN [d EXCEPT !.ss_block = d.ss]
        ELSE IF n = 2 THEN
            output_temperature([d EXCEPT !.es_block = d.es])
        ELSE IF n = 3 THEN
            warn_upon_crc_error([d EXCEPT !.ss_block = d.ss, !.es_block = d.es],
                                Slice(d, 0, 2), Item(d, 2))
        ELSE IF n = 5 THEN
            \* no return here: the test for 6 that follows is false
            output_relative_humidity([d EXCEPT !.es_block = d.es])
        ELSE IF n = 6 THEN
            LET w == warn_upon_crc_error(
                         [d EXCEPT !.ss_block = d.ss, !.es_block = d.es],
                         Slice(d, 3, 5), Item(d, 5))
            IN  IF w.exc # "none" THEN w ELSE [w EXCEPT !.databytes = <<>>]
        ELSE d

\* Mutant: a foreign address is warned about and the transaction is skipped.
decode_skips_foreign_address(self, s, e, cmd, databyte) ==
    LET d == [self EXCEPT !.ss = s, !.es = e] IN
    IF d.state = "IDLE" THEN
        IF cmd # "START" THEN d ELSE [d EXCEPT !.state = "GET SLAVE ADDR"]
    ELSE IF d.state = "GET SLAVE ADDR" THEN
        IF cmd = "ADDRESS READ" THEN
            LET w == warn_upon_invalid_slave(d, databyte)
            IN  IF w.exc # "none" THEN w
                ELSE IF databyte \notin 68..69 THEN [w EXCEPT !.state = "IDLE"]
                ELSE [w EXCEPT !.state = "READ PERIODIC DATA"]
        ELSE d
    ELSE IF d.state = "READ PERIODIC DATA" THEN
        IF cmd = "DATA READ" THEN handle_periodic_data(d, databyte)
        ELSE IF cmd = "STOP" THEN [d EXCEPT !.state = "IDLE"]
        ELSE d
    ELSE d

\* Mutant: STOP is not acted upon.
decode_ignores_stop(self, s, e, cmd, databyte) ==
    LET d == [self EXCEPT !.ss = s, !.es = e] IN
    IF d.state = "IDLE" THEN
        IF cmd # "START" THEN d ELSE [d EXCEPT !.state = "GET SLAVE ADDR"]
    ELSE IF d.state = "GET SLAVE ADDR" THEN
        IF cmd = "ADDRESS READ" THEN
            LET w == warn_upon_invalid_slave(d, databyte)
            IN  IF w.exc # "none" THEN w
                ELSE [w EXCEPT !.state = "READ PERIODIC DATA"]
        ELSE d
    ELSE IF d.state = "READ PERIODIC DATA" THEN
        IF cmd = "DATA READ" THEN handle_periodic_data(d, databyte)
        ELSE d
    ELSE d

\* Mutant: STOP also empties the buffer.
decode_stop_clears(self, s, e, cmd, databyte) ==
    LET d == [self EXCEPT !.ss = s, !.es = e] IN
    IF d.state = "IDLE" THEN
        IF cmd # "START" THEN d ELSE [d EXCEPT !.state = "GET SLAVE ADDR"]
    ELSE IF d.state = "GET SLAVE ADDR" THEN
        IF cmd = "ADDRESS READ" THEN
            LET w == warn_upon_invalid_slave(d, databyte)
            IN  IF w.exc # "none" THEN w
                ELSE [w EXCEPT !.state = "READ PERIODIC DATA"]
        ELSE d
    ELSE IF d.state = "READ PERIODIC DATA" THEN
        IF cmd = "DATA READ" THEN handle_periodic_data(d, databyte)
        ELSE IF cmd = "STOP" THEN [d EXCEPT !.state = "IDLE", !.databytes = <<>>]
        ELSE d
    ELSE d

\* Mutant: the test for START is missing: any packet leaves IDLE.
decode_idle_takes_any_packet(self, s, e, cmd, databyte) ==
    LET d == [self EXCEPT !.ss = s, !.es = e] IN
    IF d.state = "IDLE" THEN
        [d EXCEPT !.state = "GET SLAVE ADDR"]
    ELSE IF d.state = "GET SLAVE ADDR" THEN
        IF cmd = "ADDRESS READ" THEN
            LET w == warn_upon_invalid_slave(d, databyte)
            IN  IF w.exc # "none" THEN w
                ELSE [w EXCEPT !.state = "READ PERIODIC DATA"]
        ELSE d
    ELSE IF d.state = "READ PERIODIC DATA" THEN
        IF cmd = "DATA READ" THEN handle_periodic_data(d, databyte)
        ELSE IF cmd = "STOP" THEN [d EXCEPT !.state = "IDLE"]
        ELSE d
    ELSE d

\* Mutant: an ADDRESS WRITE also opens the data phase.
decode_accepts_address_write(self, s, e, cmd, databyte) ==
    LET d == [self EXCEPT !.ss = s, !.es = e] IN
    IF d.state = "IDLE" THEN
        IF cmd # "START" THEN d ELSE [d EXCEPT !.state = "GET SLAVE ADDR"]
    ELSE IF d.state = "GET SLAVE ADDR" THEN
        IF cmd = "ADDRESS READ" THEN
            LET w == warn_upon_invalid_slave(d, databyte)
            IN  IF w.exc # "none" THEN w
                ELSE [w EXCEPT !.state = "READ PERIODIC DATA"]
        ELSE IF cmd = "ADDRESS WRITE" THEN [d EXCEPT !.state = "READ PERIODIC DATA"]
        ELSE d
    ELSE IF d.state = "READ PERIODIC DATA" THEN
        IF cmd = "DATA READ" THEN handle_periodic_data(d, databyte)
        ELSE IF cmd = "STOP" THEN [d EXCEPT !.state = "IDLE"]
        ELSE d
    ELSE d

\* Mutant: a repeated START while reading data goes back to wait for the address.
decode_restarts_on_start(self, s, e, cmd, databyte) ==
    LET d == [self EXCEPT !.ss = s, !.es = e] IN
    IF d.state = "IDLE" THEN
        IF cmd # "START" THEN d ELSE [d EXCEPT !.state = "GET SLAVE ADDR"]
    ELSE IF d.state = "GET SLAVE ADDR" THEN
        IF cmd = "ADDRESS READ" THEN
            LET w == warn_upon_invalid_slave(d, databyte)
            IN  IF w.exc # "none" THEN w
                ELSE [w EXCEPT !.state = "READ PERIODIC DATA"]
        ELSE d
    ELSE IF d.state = "READ PERIODIC DATA" THEN
        IF cmd = "DATA READ" THEN handle_periodic_data(d, databyte)
        ELSE IF cmd = "STOP" THEN [d EXCEPT !.state = "IDLE"]
        ELSE IF cmd = "START" THEN [d EXCEPT !.state = "GET SLAVE ADDR"]
        ELSE d
    ELSE d

\* Mutant: a STOP while waiting for the address goes back to IDLE.
decode_stop_ends_addressing(self, s, e, cmd, databyte) ==
    LET d == [self EXCEPT !.ss = s, !.es = e] IN
    IF d.state = "IDLE" THEN
        IF cmd # "START" THEN d ELSE [d EXCEPT !.state = "GET SLAVE ADDR"]
    ELSE IF d.state = "GET SLAVE ADDR" THEN
        IF cmd = "ADDRESS READ" THEN
            LET w == warn_upon_invalid_slave(d, databyte)
            IN  IF w.exc # "none" THEN w
                ELSE [w EXCEPT !.state = "READ PERIODIC DATA"]
        ELSE IF cmd = "STOP" THEN [d EXCEPT !.state = "IDLE"]
        ELSE d
    ELSE IF d.state = "READ PERIODIC DATA" THEN
        IF cmd = "DATA READ" THEN handle_periodic_data(d, databyte)
        ELSE IF cmd = "STOP" THEN [d EXCEPT !.state = "IDLE"]
        ELSE d
    ELSE d

decode(self, s, e, cmd, databyte) ==
    LET d == [self EXCEPT !.ss = s, !.es = e] IN
    IF d.state = "IDLE" THEN
        IF cmd # "START" THEN d ELSE [d EXCEPT !.state = "GET SLAVE ADDR"]
    ELSE IF d.state = "GET SLAVE ADDR" THEN
        IF cmd = "ADDRESS READ" THEN
            LET w == warn_upon_invalid_slave(d, databyte)
            IN  IF w.exc # "none" THEN w
                ELSE [w EXCEPT !.state = "READ PERIODIC DATA"]
        ELSE d
    ELSE IF d.state = "READ PERIODIC DATA" THEN
        IF cmd = "DATA READ" THEN handle_periodic_data(d, databyte)
        ELSE IF cmd = "STOP" THEN [d EXCEPT !.state = "IDLE"]
        ELSE d
    ELSE d

\* Mutant: reset() forgets to empty the buffer.
reset_keeps_databytes(self) == [self EXCEPT !.state = "IDLE"]

reset(self) == [self EXCEPT !.state = "IDLE", !.databytes = <<>>]

start(self) == [self EXCEPT !.out_ann = 0]

\* The object before __init__ has run: no attribute assigned.
NewObject == [state |-> "", databytes |-> <<>>, ss |-> Unset, es |-> Unset,
              ss_block |-> Unset, es_block |-> Unset, out_ann |-> Unset,
              out |-> <<>>, exc |-> "none"]

\* __init__
construct == reset(NewObject)

(***************************************************************************)
(* The annotation categories of the spec, as the classes and texts the     *)
(* decoder puts: class 0 'celsius', 1 'relative-humidity', 3 'text',       *)
(* 4 'warning'.  The two kinds of warning share class 4 and differ by      *)
(* their text.                                                             *)
(***************************************************************************)
IsTemperature(a) == a.cls = 0
IsHumidity(a) == a.cls = 1
IsChecksumOk(a) == a.cls = 3 /\ a.text[1] = "CRC"
IsChecksumWarning(a) == a.cls = 4 /\ a.text[1] = "Warning: CRC"
IsAddressWarning(a) ==
    a.cls = 4 /\ a.text[1] = "Warning: I2C slave address not an SHT31 sensor"

(***************************************************************************)
(* The state machine of one decoder instance driven by its host.           *)
(***************************************************************************)
Becomes(r) ==
    /\ state' = r.state
    /\ databytes' = r.databytes
    /\ ss' = r.ss
    /\ es' = r.es
    /\ ss_block' = r.ss_block
    /\ es_block' = r.es_block
    /\ out_ann' = r.out_ann
    /\ out' = r.out
    /\ exc' = r.exc

Is(r) ==
    /\ state = r.state
    /\ databytes = r.databytes
    /\ ss = r.ss
    /\ es = r.es
    /\ ss_block = r.ss_block
    /\ es_block = r.es_block
    /\ out_ann = r.out_ann
    /\ out = r.out
    /\ exc = r.exc

\* The call begins with nothing emitted yet.
Called == [Self EXCEPT !.out = <<>>]

NoScenario == [name |-> "none", script |-> <<>>, emitted |-> <<>>, later |-> 0]

Init ==
    /\ Is(construct)
    /\ call = <<"__init__">>
    /\ samplenum = 0
    /\ twin = construct
    /\ scn = NoScenario

\* The host calls start() once, before the first packet.
Start ==
    /\ out_ann = Unset
    /\ Becomes(start(Called))
    /\ call' = <<"start">>
    /\ UNCHANGED <<samplenum, twin, scn>>

\* The host calls reset() at any time.
Reset ==
    /\ exc = "none"
    /\ Becomes(reset(Called))
    /\ call' = <<"reset">>
    /\ UNCHANGED <<samplenum, twin, scn>>

\* The host delivers the next packet of the I2C decoder: packets come in
\* increasing sample order and do not overlap.
Decode ==
    /\ out_ann # Unset
    /\ exc = "none"
    /\ \E cmd \in Cmds, dur \in 1..MaxDur :
         /\ samplenum + dur <= MaxSample
         /\ \E databyte \in Payload(cmd) :
              /\ Becomes(decode(Called, samplenum, samplenum + dur, cmd, databyte))
              /\ call' = <<"decode", cmd, databyte>>
         /\ samplenum' = samplenum + dur
    /\ UNCHANGED <<twin, scn>>

Next == Start \/ Reset \/ Decode

Spec == Init /\ [][Next]_vars

(***************************************************************************)
(* Two decoders fed the same calls, except that the address of an          *)
(* ADDRESS READ packet is chosen for each of them separately.              *)
(***************************************************************************)
PairStart ==
    /\ out_ann = Unset
    /\ Becomes(start(Called))
    /\ twin' = start([twin EXCEPT !.out = <<>>])
    /\ call' = <<"start">>
    /\ UNCHANGED <<samplenum, scn>>

PairReset ==
    /\ exc = "none"
    /\ Becomes(reset(Called))
    /\ twin' = reset([twin EXCEPT !.out = <<>>])
    /\ call' = <<"reset">>
    /\ UNCHANGED <<samplenum, scn>>

PairDecode ==
    /\ out_ann # Unset
    /\ exc = "none"
    /\ twin.exc = "none"
    /\ \E cmd \in Cmds, dur \in 1..MaxDur :
         /\ samplenum + dur <= MaxSample
         /\ \E databyte \in Payload(cmd) :
              /\ Becomes(decode(Called, samplenum, samplenum + dur, cmd, databyte))
              /\ call' = <<"decode", cmd, databyte>>
              /\ \E other \in (IF cmd = "ADDRESS READ" THEN Addrs ELSE {databyte}) :
                   twin' = decode([twin EXCEPT !.out = <<>>],
                                  samplenum, samplenum + dur, cmd, other)
         /\ samplenum' = samplenum + dur
    /\ UNCHANGED scn

PairNext == PairStart \/ PairReset \/ PairDecode

PairSpec == Init /\ [][PairNext]_vars

(***************************************************************************)
(* The scenario streams of the spec, fed to a decoder that is Idle with    *)
(* an empty buffer.                                                        *)
(***************************************************************************)
\* Packets delivered after the scenario's stream, at most.
MaxLater == 2

\* A packet of a scenario: its kind and the payloads it may carry.
DataRead == <<"DATA READ", Bytes>>

ScenarioA ==
    <<<<"START", {0}>>, <<"ADDRESS READ", {68}>>,
      DataRead, DataRead, DataRead, DataRead, DataRead, DataRead,
      <<"STOP", {0}>>>>

ScenarioB ==
    <<<<"START", {0}>>, <<"ADDRESS READ", {80}>>,
      DataRead, DataRead, DataRead, DataRead, DataRead, DataRead,
      <<"STOP", {0}>>>>

ScenarioC ==
    <<<<"START", {0}>>, <<"ADDRESS READ", {68}>>,
      DataRead, DataRead, DataRead,
      <<"STOP", {0}>>>>

Scenarios == {[name |-> "A", script |-> ScenarioA, emitted |-> <<>>, later |-> 0],
              [name |-> "B", script |-> ScenarioB, emitted |-> <<>>, later |-> 0],
              [name |-> "C", script |-> ScenarioC, emitted |-> <<>>, later |-> 0]}

\* The decoder after the packets evs (pairs of kind and payload), each one
\* sample long, the first one starting at sample at.
RECURSIVE Run(_, _, _)
Run(self, evs, at) ==
    IF evs = <<>> THEN self
    ELSE Run(decode([self EXCEPT !.out = <<>>], at, at + 1,
                    Head(evs)[1], Head(evs)[2]),
             Tail(evs), at + 1)

\* Decoders that are Idle with an empty buffer, with the sample each one's
\* host has reached: a new one; one reset in the middle of a reading; one
\* that has decoded a whole transaction.
Fresh == [self |-> start(construct), at |-> 0]

ResetMidReading ==
    [self |-> reset(Run(start(construct),
                        <<<<"START", 0>>, <<"ADDRESS READ", 68>>,
                          <<"DATA READ", 255>>>>, 0)),
     at |-> 3]

AfterTransaction ==
    [self |-> Run(start(construct),
                  <<<<"START", 0>>, <<"ADDRESS READ", 69>>,
                    <<"DATA READ", 255>>, <<"DATA READ", 0>>,
                    <<"DATA READ", 0>>, <<"DATA READ", 255>>,
                    <<"DATA READ", 255>>, <<"DATA READ", 172>>,
                    <<"STOP", 0>>>>, 0),
     at |-> 9]

ScenarioInit ==
    /\ \E d \in {Fresh, ResetMidReading, AfterTransaction} :
         /\ Is([d.self EXCEPT !.out = <<>>])
         /\ samplenum = d.at
    /\ call = <<"start">>
    /\ twin = construct
    /\ scn \in Scenarios

\* The host delivers the next packet of the scenario.
ScenarioFeed ==
    /\ scn.script # <<>>
    /\ exc = "none"
    /\ \E databyte \in Head(scn.script)[2] :
         /\ Becomes(decode(Called, samplenum, samplenum + 1,
                           Head(scn.script)[1], databyte))
         /\ call' = <<"decode", Head(scn.script)[1], databyte>>
    /\ samplenum' = samplenum + 1
    /\ scn' = [scn EXCEPT !.script = Tail(@), !.emitted = @ \o out']
    /\ UNCHANGED twin

\* After the scenario's stream the host delivers packets that open the
\* next transaction, or that the decoder does not act on.
ScenarioLater ==
    /\ scn.script = <<>>
    /\ call # <<"reset">>
    /\ exc = "none"
    /\ scn.later < MaxLater
    /\ \E cmd \in Cmds \ {"DATA READ", "DATA WRITE"} :
         \E databyte \in Payload(cmd) :
             /\ Becomes(decode(Called, samplenum, samplenum + 1, cmd, databyte))
             /\ call' = <<"decode", cmd, databyte>>
    /\ samplenum' = samplenum + 1
    /\ scn' = [scn EXCEPT !.later = @ + 1]
    /\ UNCHANGED twin

\* After the scenario's stream the host calls reset(), which ends the run.
ScenarioReset ==
    /\ scn.script = <<>>
    /\ call # <<"reset">>
    /\ exc = "none"
    /\ Becomes(reset(Called))
    /\ call' = <<"reset">>
    /\ UNCHANGED <<samplenum, twin, scn>>

ScenarioNext == ScenarioFeed \/ ScenarioLater \/ ScenarioReset

ScenarioSpec == ScenarioInit /\ [][ScenarioNext]_vars

(***************************************************************************)
(* One decoder fed any packet stream and never reset, with the kind of     *)
(* every annotation it puts kept in scn.emitted.  Packets are one sample   *)
(* long.                                                                   *)
(***************************************************************************)
\* The category of an annotation.
Kind(a) ==
    IF IsTemperature(a) THEN "Temperature"
    ELSE IF IsHumidity(a) THEN "Humidity"
    ELSE IF IsChecksumOk(a) THEN "ChecksumOk"
    ELSE IF IsChecksumWarning(a) THEN "ChecksumWarning"
    ELSE IF IsAddressWarning(a) THEN "AddressWarning"
    ELSE "other"

Kinds(anns) == [i \in DOMAIN anns |-> Kind(anns[i])]

\* Last sample number of a stream without reset.
MaxStream == 10

StreamStart ==
    /\ out_ann = Unset
    /\ Becomes(start(Called))
    /\ call' = <<"start">>
    /\ UNCHANGED <<samplenum, twin, scn>>

StreamDecode ==
    /\ out_ann # Unset
    /\ exc = "none"
    /\ samplenum < MaxStream
    /\ \E cmd \in Cmds :
         \E databyte \in Payload(cmd) :
             /\ Becomes(decode(Called, samplenum, samplenum + 1, cmd, databyte))
             /\ call' = <<"decode", cmd, databyte>>
    /\ samplenum' = samplenum + 1
    /\ scn' = [scn EXCEPT !.emitted = @ \o Kinds(out')]
    /\ UNCHANGED twin

StreamNext == StreamStart \/ StreamDecode

StreamSpec == Init /\ [][StreamNext]_vars

(***************************************************************************)
(* Properties.                                                             *)
(***************************************************************************)
\* The step is a decode() call that delivered a packet of kind cmd.
DecodeStep(cmd) ==
    /\ samplenum' > samplenum
    /\ call'[1] = "decode"
    /\ call'[2] = cmd

\* The state names of the spec.
Idle == "IDLE"
AwaitingAddress == "GET SLAVE ADDR"
ReadingData == "READ PERIODIC DATA"

\* raw_pair(offset) of the spec: the big-endian 16-bit value of the bytes at
\* (0-based) offset and offset + 1 of the buffer buf.
RawPair(buf, offset) == buf[offset + 1] * 256 + buf[offset + 2]

\* The CRC-8 of the claims, bit by bit: polynomial 0x31, initial value 0xFF,
\* no reflection, no final xor.
RECURSIVE Crc8Bits(_, _)
Crc8Bits(c, n) ==
    IF n = 0 THEN c
    ELSE Crc8Bits(IF c >= 128 THEN Xor((2 * c) % 256, 49) ELSE (2 * c) % 256,
                  n - 1)

RECURSIVE Crc8From(_, _)
Crc8From(c, data) ==
    IF data = <<>> THEN c
    ELSE Crc8From(Crc8Bits(Xor(c, Head(data)), 8), Tail(data))

Crc8(data) == Crc8From(255, data)

\* C1: the Humidity annotation, emitted when the fifth byte of a reading is
\* pushed, shows the relative humidity of the big-endian value of the buffer
\* bytes at index 3 and 4.
C1_HumidityFromBytes3And4 ==
    \A i \in DOMAIN out :
        IsHumidity(out[i]) =>
            /\ Len(databytes) = 5
            /\ out[i].text[2] = Tenths(100 * RawPair(databytes, 3), 65535)

\* C2: whenever the machine enters ReadingData from AwaitingAddress, the
\* reading buffer is empty: no partial reading is carried into the new
\* transaction.
C2_EntersReadingDataWithEmptyBuffer ==
    [][state = AwaitingAddress /\ state' = ReadingData => databytes' = <<>>]_vars

\* C3: after construction and after every call, the buffer holds 0..5 bytes:
\* the push that brings it to 6 empties it within the same call.
C3_BufferLengthAtMostFive == Len(databytes) \in 0..5

\* C3 witness: the sixth byte of a reading was pushed, its checksum
\* annotation was put, and the buffer is empty again.
C3_SixthByteCleared ==
    /\ call[1] = "decode" /\ call[2] = "DATA READ"
    /\ databytes = <<>>
    /\ Len(out) = 1
    /\ IsChecksumOk(out[1]) \/ IsChecksumWarning(out[1])

\* C4: in AwaitingAddress an ADDRESS READ packet puts exactly one
\* AddressWarning, spanning the packet, if its address is neither 0x44 nor
\* 0x45, and nothing otherwise; either way the state becomes ReadingData.
C4_AddressReadWarnsAndProceeds ==
    [][DecodeStep("ADDRESS READ") /\ state = AwaitingAddress =>
          /\ state' = ReadingData
          /\ IF call'[3] \in {68, 69}
             THEN out' = <<>>
             ELSE /\ Len(out') = 1
                  /\ IsAddressWarning(out'[1])
                  /\ out'[1].text[2] = call'[3]
                  /\ out'[1].ss = samplenum
                  /\ out'[1].es = samplenum']_vars

\* C4 witness: an ADDRESS READ with a foreign address was warned about and
\* the decoder went on to ReadingData.
C4_WarnedAndReading ==
    /\ call[1] = "decode" /\ call[2] = "ADDRESS READ"
    /\ call[3] \notin {68, 69}
    /\ state = ReadingData
    /\ Len(out) = 1 /\ IsAddressWarning(out[1])

\* C6: when a checksum byte is pushed (position 2 or 5) exactly one
\* annotation is put: ChecksumOk if the CRC-8 of the two value bytes of the
\* same field equals the pushed byte, and ChecksumWarning if it does not.
C6_ChecksumVerdict ==
    [][DecodeStep("DATA READ") /\ state = ReadingData
        /\ Len(databytes) \in {2, 5} =>
          LET n == Len(databytes)
              field == <<databytes[n - 1], databytes[n]>>
              matches == Crc8(field) = call'[3]
          IN  /\ Len(out') = 1
              /\ IsChecksumOk(out'[1]) <=> matches
              /\ IsChecksumWarning(out'[1]) <=> ~matches]_vars

\* C6 witness: the humidity checksum byte (position 5) was pushed and found
\* to match.
C6_HumidityChecksumOk ==
    /\ call[1] = "decode" /\ call[2] = "DATA READ"
    /\ databytes = <<>>
    /\ Len(out) = 1 /\ IsChecksumOk(out[1])

\* C7: a checksum mismatch stops nothing.  Every DATA READ in ReadingData
\* keeps the state and advances the buffer by one byte (emptying it after
\* the sixth), whatever the checksum bytes were, and the second and fifth
\* byte of a reading always put the Temperature and the Humidity annotation.
C7_ChecksumMismatchNotFatal ==
    [][DecodeStep("DATA READ") /\ state = ReadingData =>
          /\ state' = ReadingData
          /\ databytes' = IF Len(databytes) = 5 THEN <<>>
                          ELSE Append(databytes, call'[3])
          /\ Len(databytes) = 1 => Len(out') = 1 /\ IsTemperature(out'[1])
          /\ Len(databytes) = 4 => Len(out') = 1 /\ IsHumidity(out'[1])]_vars

\* C7 witness: the Humidity annotation of a reading whose temperature
\* checksum did not match.
C7_HumidityAfterBadChecksum ==
    /\ Len(out) = 1 /\ IsHumidity(out[1])
    /\ Len(databytes) = 5
    /\ Crc8(SubSeq(databytes, 1, 2)) # databytes[3]
    /\ state = ReadingData

\* C10: reset() leaves the decoder as construct() does, Idle with an empty
\* buffer, puts no annotation, and a second reset() changes nothing.
C10_ResetRestoresConstruct ==
    call = <<"reset">> =>
        /\ state = construct.state
        /\ databytes = construct.databytes
        /\ state = Idle
        /\ out = <<>>
        /\ exc = "none"
        /\ reset(Called) = Self

\* C10 witness: reset() was called in the middle of a reading.
C10_ResetMidReading ==
    /\ call = <<"reset">>
    /\ ss_block # Unset
    /\ es_block = Unset


\* The annotations of a sequence that are not AddressWarnings.
NotAddressWarning(a) == ~IsAddressWarning(a)
WithoutAddressWarnings(anns) == SelectSeq(anns, NotAddressWarning)

\* C5: two streams that differ only in the addresses of their ADDRESS READ
\* packets take the decoder through the same states, buffer contents and
\* block spans, and put the same annotations once the AddressWarnings are
\* removed.
C5_AddressDoesNotInfluenceData ==
    /\ state = twin.state
    /\ databytes = twin.databytes
    /\ ss_block = twin.ss_block
    /\ es_block = twin.es_block
    /\ WithoutAddressWarnings(out) = WithoutAddressWarnings(twin.out)
    /\ Len(twin.out) - Len(out) \in {-1, 0, 1}

\* C5 witness: one decoder was warned about its address and the other was
\* not, and both went on to ReadingData.
C5_OneWarnedOneNot ==
    /\ call[1] = "decode" /\ call[2] = "ADDRESS READ"
    /\ out = <<>>
    /\ Len(twin.out) = 1 /\ IsAddressWarning(twin.out[1])
    /\ state = ReadingData /\ twin.state = ReadingData

\* A checksum annotation, of either verdict.
IsChecksum(a) == IsChecksumOk(a) \/ IsChecksumWarning(a)

\* The scenario's stream has just been delivered in full.
ScenarioDone(name) ==
    /\ scn.name = name
    /\ scn.script = <<>>
    /\ scn.later = 0
    /\ call # <<"reset">>

\* C8: scenario A (START, ADDRESS READ 0x44, six DATA READ, STOP) puts
\* exactly four annotations, Temperature, checksum, Humidity, checksum, in
\* this order, no AddressWarning, and ends Idle with an empty buffer.
C8_ScenarioA ==
    ScenarioDone("A") =>
        /\ Len(scn.emitted) = 4
        /\ IsTemperature(scn.emitted[1])
        /\ IsChecksum(scn.emitted[2])
        /\ IsHumidity(scn.emitted[3])
        /\ IsChecksum(scn.emitted[4])
        /\ \A i \in 1..4 : ~IsAddressWarning(scn.emitted[i])
        /\ state = Idle
        /\ databytes = <<>>

\* C8 witness: scenario A delivered in full, with one checksum matching and
\* the other not.
C8_ScenarioADelivered ==
    /\ ScenarioDone("A")
    /\ call = <<"decode", "STOP", 0>>
    /\ Len(scn.emitted) = 4
    /\ IsChecksumOk(scn.emitted[2])
    /\ IsChecksumWarning(scn.emitted[4])

AnyDecodeStep ==
    /\ samplenum' > samplenum
    /\ call'[1] = "decode"

\* The decode() call of the step changed neither the state nor the buffer
\* and put no annotation.
Ignored ==
    /\ state' = state
    /\ databytes' = databytes
    /\ out' = <<>>
    /\ exc' = "none"

\* C11: in Idle, START moves the state to AwaitingAddress; a packet of any
\* other kind leaves state and buffer unchanged and puts no annotation.
C11_IdleTransitions ==
    [][AnyDecodeStep /\ state = Idle =>
          IF call'[2] = "START"
          THEN state' = AwaitingAddress /\ databytes' = databytes /\ out' = <<>>
          ELSE Ignored]_vars

\* C11 witness: a DATA READ packet was delivered in Idle and ignored, with a
\* partial reading in the buffer.
C11_DataReadIgnoredInIdle ==
    /\ call[1] = "decode" /\ call[2] = "DATA READ"
    /\ state = Idle
    /\ Len(databytes) = 1

C13_ReadingDataTransitions ==
    [][AnyDecodeStep /\ state = ReadingData =>
          IF call'[2] = "STOP"
          THEN state' = Idle /\ out' = <<>> /\ databytes' = databytes
          ELSE IF call'[2] = "DATA READ"
          THEN state' = ReadingData
          ELSE Ignored /\ state' = ReadingData]_vars

\* C13 witness: a repeated START was delivered in ReadingData and ignored.
C13_RepeatedStartIgnored ==
    /\ call[1] = "decode" /\ call[2] = "START"
    /\ state = ReadingData


\* C14: no call fails.  No decode() or reset() ends with an exception: every
\* buffer index read is inside the buffer and the block span is assigned
\* before an annotation reads it; every annotation put carries an assigned
\* span.
C14_NoCallFails ==
    /\ exc = "none"
    /\ \A i \in DOMAIN out : out[i].ss # Unset /\ out[i].es # Unset

\* C14 witness: a Temperature annotation whose block was opened before a
\* STOP and closed in the next transaction: it is longer than two packets.
C14_BlockAcrossTransactions ==
    /\ Len(out) = 1
    /\ IsTemperature(out[1])
    /\ out[1].es - out[1].ss > 2 * MaxDur
    /\ exc = "none"


\* C15: every checksum annotation, ChecksumOk or ChecksumWarning, spans its
\* block, which is the one DATA READ packet that carried the checksum byte:
\* from that packet's start sample to its end sample.
C15_ChecksumSpansItsPacket ==
    [][AnyDecodeStep =>
          \A i \in DOMAIN out' :
              IsChecksum(out'[i]) =>
                  /\ call'[2] = "DATA READ"
                  /\ out'[i].ss = samplenum
                  /\ out'[i].es = samplenum'
                  /\ ss_block' = samplenum
                  /\ es_block' = samplenum']_vars

\* C15 witness: a ChecksumWarning was put for a checksum byte that took two
\* samples.
C15_ChecksumWarningPut ==
    /\ Len(out) = 1
    /\ IsChecksumWarning(out[1])
    /\ out[1].es - out[1].ss = 2
    /\ call[1] = "decode" /\ call[2] = "DATA READ"


\* The fraction q is exactly the integer n.
Exactly(q, n) == q.num = n * q.den

\* C16: the Temperature annotation, put when the second byte of a reading is
\* pushed, shows -45 + 175 * raw / 65535 for the big-endian raw value of the
\* bytes at index 0 and 1: exactly -45 for raw 0 and exactly 130 for raw
\* 65535.  The humidity conversion 100 * raw / 65535 is exactly 0 for raw 0
\* and exactly 100 for raw 65535.
C16_Conversions ==
    \A i \in DOMAIN out :
        /\ IsTemperature(out[i]) =>
              /\ Len(databytes) = 2
              /\ LET raw == RawPair(databytes, 0) IN
                 /\ out[i].text[2] = Tenths(175 * raw - 45 * 65535, 65535)
                 /\ raw = 0 =>
                       Exactly(celsius(raw), -45) /\ out[i].text[2] = -450
                 /\ raw = 65535 =>
                       Exactly(celsius(raw), 130) /\ out[i].text[2] = 1300
        /\ IsHumidity(out[i]) =>
              /\ Exactly(relative_humidity(0), 0)
              /\ Exactly(relative_humidity(65535), 100)
              /\ SubSeq(databytes, 3, 5) = <<0, 0, 0>> => out[i].text[2] = 0
              /\ SubSeq(databytes, 3, 5) = <<255, 255, 255>> =>
                    out[i].text[2] = 1000

\* C16 witness: the Temperature annotation of raw 65535, shown as 130.0.
C16_TemperatureOfLargestRaw ==
    /\ Len(out) = 1
    /\ IsTemperature(out[1])
    /\ databytes = <<255, 255>>
    /\ out[1].text[2] = 1300


\* The step is a decode() call that pushes a DATA READ byte into the buffer.
PushStep == DecodeStep("DATA READ") /\ state = ReadingData

\* C17: a Temperature or Humidity annotation spans from the start sample of
\* the DATA READ packet that filled the high-byte position (0 or 3) to the
\* end sample of the one that filled the low-byte position (1 or 4).  The
\* push of a high byte records its packet's start sample; no call changes
\* the record while the high byte is the last byte of the buffer; the push
\* of the low byte puts the annotation from that record to its own packet's
\* end.  The record of a humidity high byte is never earlier than the end of
\* the checksum packet before it.
C17_ValueSpansItsTwoPackets ==
    [][/\ PushStep /\ Len(databytes) \in {0, 3} => ss_block' = samplenum
       /\ Len(databytes) \in {1, 4} /\ databytes' = databytes =>
             ss_block' = ss_block
       /\ PushStep /\ Len(databytes) \in {1, 4} =>
             /\ Len(out') = 1
             /\ IF Len(databytes) = 1 THEN IsTemperature(out'[1])
                                      ELSE IsHumidity(out'[1])
             /\ out'[1].ss = ss_block
             /\ out'[1].es = samplenum'
       /\ Len(databytes') = 4 => ss_block' >= es_block']_vars

\* C17 witness: a Humidity annotation that starts before the packet of its
\* low byte, which took two samples, and ends with it.
C17_HumidityOverTwoPackets ==
    /\ Len(out) = 1
    /\ IsHumidity(out[1])
    /\ Len(databytes) = 5
    /\ out[1].ss < ss
    /\ out[1].es = es
    /\ es - ss = 2


\* C18: the buffer position is a running counter.  It starts at 0; reset()
\* sets it to 0; a DATA READ decoded in ReadingData advances it by one
\* modulo 6; no other call changes it, whatever STOP, START and ADDRESS READ
\* packets come between the data bytes.  So the buffer length is the number
\* of DATA READ packets decoded in ReadingData since the last construct() or
\* reset(), modulo 6.
C18_BufferLengthIsRunningCounter ==
    /\ Len(databytes) = 0
    /\ [][Len(databytes') =
              IF call' = <<"reset">> THEN 0
              ELSE IF PushStep THEN (Len(databytes) + 1) % 6
              ELSE Len(databytes)]_vars

\* C18 witness: a second transaction reaches ReadingData with the two bytes
\* of the transaction before it counted.
C18_CountKeptAcrossTransactions ==
    /\ call[1] = "decode" /\ call[2] = "ADDRESS READ"
    /\ state = ReadingData
    /\ Len(databytes) = 2


\* The kinds put so far, AddressWarnings left out and the two checksum
\* verdicts taken as one kind.
NotAddressWarningKind(k) == k # "AddressWarning"
ChecksumAsOne(k) == IF k \in {"ChecksumOk", "ChecksumWarning"} THEN "Checksum" ELSE k
EmittedCycle ==
    LET kept == SelectSeq(scn.emitted, NotAddressWarningKind)
    IN  [i \in DOMAIN kept |-> ChecksumAsOne(kept[i])]

Cycle == <<"Temperature", "Checksum", "Humidity", "Checksum">>

\* C19: in a stream without reset(), the annotations other than
\* AddressWarning follow the cycle Temperature, checksum, Humidity, checksum
\* from the first one on: the first is a Temperature, a Humidity comes only
\* after a Temperature and one checksum since the Humidity before it, and
\* there is exactly one Humidity between two consecutive Temperatures.
C19_AnnotationsFollowCycle ==
    \A i \in DOMAIN EmittedCycle : EmittedCycle[i] = Cycle[((i - 1) % 4) + 1]

\* C19 witness: a whole reading and the Temperature of the next one.
C19_SecondTemperature ==
    /\ Len(EmittedCycle) = 5
    /\ EmittedCycle[5] = "Temperature"
    /\ call[1] = "decode" /\ call[2] = "DATA READ"


\* The state changes decode() makes: the state before, the packet kind and
\* the state after.
Transitions ==
    {<<Idle, "START", AwaitingAddress>>,
     <<AwaitingAddress, "ADDRESS READ", ReadingData>>,
     <<ReadingData, "STOP", Idle>>}

\* C20: decode() changes the state only along Idle -> AwaitingAddress on
\* START, AwaitingAddress -> ReadingData on ADDRESS READ and ReadingData ->
\* Idle on STOP.  It changes the buffer and puts Temperature, Humidity and
\* checksum annotations only in ReadingData, and puts an AddressWarning only
\* on the step from AwaitingAddress to ReadingData.  From AwaitingAddress
\* the state becomes Idle only by reset().
C20_StateChangesOnlyAlongCycle ==
    [][/\ AnyDecodeStep =>
            /\ state' # state => <<state, call'[2], state'>> \in Transitions
            /\ databytes' # databytes =>
                  state = ReadingData /\ state' = ReadingData
            /\ \A i \in DOMAIN out' :
                  IF IsAddressWarning(out'[i])
                  THEN state = AwaitingAddress /\ state' = ReadingData
                  ELSE state = ReadingData /\ state' = ReadingData
       /\ state = AwaitingAddress /\ state' = Idle => call' = <<"reset">>]_vars

\* C20 witness: a STOP took the decoder from ReadingData back to Idle in
\* the middle of a reading.
C20_StoppedMidReading ==
    /\ call = <<"decode", "STOP", 0>>
    /\ state = Idle
    /\ Len(databytes) = 4

====
